---- MODULE Spec2Model ----
(***************************************************************************)
(* Request dispatch pipeline of the KeyAuth seller client:                 *)
(* Api._makeRequest, Api._ErrorHandler, Api.on / Api.once, the public      *)
(* endpoint operations that wrap _makeRequest, the event emitter they      *)
(* publish on and the token-bucket rate limiter they share.                *)
(*                                                                         *)
(* JavaScript runs every callback to completion, so one action is the code *)
(* between two suspension points (await) of one call.                      *)
(***************************************************************************)
EXTENDS Integers, Sequences, FiniteSets, TLC

\* ------------------------------------------------------------------ bounds
NumCalls == 1
MaxTime == 2
MaxCapacity == 2
MaxRefillRate == 2
MaxListeners == 1
MaxBusListeners == 2
ConcCalls == 3
LiveCalls == 2
MaxPublishes == 2
MaxEvents == 3
MaxChecks == 4
MaxDelay == 1
NestCalls == 2

Calls == 1 .. NumCalls

\* --------------------------------------------------------------- vocabulary
\* endpoint tags of the public operations that are modelled
Ops == {"verify", "add", "fetchallkeys"}
CrossKinds == {"request", "response", "error", "ratelimit"}
EventKinds == Ops \cup CrossKinds
\* the endpoints of the license group that are modelled, and the kinds a
\* handler can be registered for
Endpoints == Ops \cup {"info"}
AllKinds == Endpoints \cup CrossKinds

\* HTTP statuses the transport may answer with
Statuses == {200, 406, 500}

\* the JavaScript value `undefined`
Undefined == [jsUndefined |-> TRUE]
IsUndefined(v) == "jsUndefined" \in DOMAIN v
\* the object literal {}
EmptyObject == [jsEmpty |-> TRUE]

VARIABLES now, rl, listeners, calls, log, store
vars == <<now, rl, listeners, calls, log, store>>

Min(a, b) == IF a < b THEN a ELSE b
Max(a, b) == IF a > b THEN a ELSE b

\* ---------------------------------------------------------- object helpers
\* {...a, ...b}: the fields of b override those of a
Spread2(a, b) ==
    [k \in DOMAIN a \cup DOMAIN b |-> IF k \in DOMAIN b THEN b[k] ELSE a[k]]

\* {...v}: spreading undefined gives the empty object
SpreadOf(v) == IF IsUndefined(v) THEN EmptyObject ELSE v

\* o.f, undefined when the property is absent
Get(o, f) == IF f \in DOMAIN o THEN o[f] ELSE Undefined

\* -------------------------------------------------------------- rate limiter
\* utils/rateLimiter is imported by the client but its source is not among
\* the files at hand: the limiter follows its specified contract (admitted,
\* consume, timeUntilNextToken, waitUntilAdmitted).
\* Refill without the cap at maxTokens
Refill_Uncapped(b, t) ==
    LET added == (t - b.lastRefillAt) \div b.refillRate
    IN  [b EXCEPT !.tokens = b.tokens + added,
                  !.lastRefillAt = b.lastRefillAt + added * b.refillRate]

\* a refill that restarts the interval at the time of the check
Refill_ResetsClock(b, t) ==
    LET added == (t - b.lastRefillAt) \div b.refillRate
    IN  [b EXCEPT !.tokens = Min(b.maxTokens, b.tokens + added),
                  !.lastRefillAt = t]

\* lazily apply the refills owed at time t
Refill(b, t) ==
    LET added == (t - b.lastRefillAt) \div b.refillRate
    IN  [b EXCEPT !.tokens = Min(b.maxTokens, b.tokens + added),
                  !.lastRefillAt = b.lastRefillAt + added * b.refillRate]

\* an admission that asks for no token
Admitted_Nonnegative(b) == b.tokens >= 0

Admitted(b) == b.tokens >= 1

Consume(b) == [b EXCEPT !.tokens = b.tokens - 1]

\* a wait sized by the time elapsed in the interval, not by what is left of it
TimeUntilNextToken_Elapsed(b, t) == Max(0, t - b.lastRefillAt)

TimeUntilNextToken(b, t) == Max(0, b.refillRate - (t - b.lastRefillAt))

\* ------------------------------------------------------------ event emitter
\* KeyauthSellerEventEmitter is Node's EventEmitter. A registered handler is
\* [id, once, act]; act is what the callback does when it is invoked: it
\* returns, it throws, or it registers one more handler of the same kind with
\* on / once and returns.
HandlerActs == {"return", "throw", "on", "once"}

Handler(id, once, act) == [id |-> id, once |-> once, act |-> act]

Range(s) == {s[i] : i \in DOMAIN s}

Total(ls) ==
    LET RECURSIVE Sum(_)
        Sum(S) == IF S = {} THEN 0
                  ELSE LET k == CHOOSE x \in S : TRUE
                       IN  Len(ls[k]) + Sum(S \ {k})
    IN  Sum(DOMAIN ls)

TotalListeners == Total(listeners)

RECURSIVE MaxOf(_)
MaxOf(S) == IF S = {} THEN 0
            ELSE LET x == CHOOSE y \in S : TRUE
                 IN  Max(x, MaxOf(S \ {x}))

\* the identity of the next handler to register: one more than every
\* identity seen so far, among the registered handlers and the invoked ones
\* (a once-handler leaves the list only when it is invoked)
FreshId(ls, lg, heard) ==
    1 + MaxOf({h.id : h \in UNION {Range(ls[k]) : k \in DOMAIN ls}
                              \cup UNION {Range(lg[i].heard) : i \in DOMAIN lg}
                              \cup Range(heard)})

\* emit(kind, ...) throws when kind is "error" and nobody listens to it
EmitThrows(ls, kind) == kind = "error" /\ ls[kind] = <<>>

\* the loop of emit over hs, the copy of the kind's listeners taken when the
\* emit started: a once-handler is removed before it is invoked, a handler
\* may register another one, and an exception of a handler leaves the loop
RECURSIVE Deliver(_, _, _, _)
Deliver(d, kind, hs, lg) ==
    IF hs = << >> \/ d.threw THEN d
    ELSE LET h == Head(hs)
             removed == IF h.once
                        THEN [d.ls EXCEPT ![kind] =
                                 SelectSeq(@, LAMBDA g : g.id # h.id)]
                        ELSE d.ls
             adds == h.act \in {"on", "once"} /\ Total(removed) < MaxBusListeners
             after == IF adds
                      THEN [removed EXCEPT ![kind] =
                               Append(@, Handler(FreshId(removed, lg,
                                                         Append(d.heard, h)),
                                                 h.act = "once", "return"))]
                      ELSE removed
         IN  Deliver([ls |-> after, heard |-> Append(d.heard, h),
                      threw |-> h.act = "throw"],
                     kind, Tail(hs), lg)

\* what the log keeps of one emit: the event, the handlers that were
\* registered for its kind when the emit started (snap) and the handlers it
\* invoked, in order (heard)
Logged(ev, snap, heard) == Spread2(ev, [snap |-> snap, heard |-> heard])

\* one emit, in a synchronous run st = [ls, log, threw] of emits; an emit
\* after an exception is not reached
Emit(st, ev) ==
    IF st.threw THEN st
    ELSE IF EmitThrows(st.ls, ev.kind)
    THEN [ls    |-> st.ls,
          log   |-> Append(st.log, Logged(ev, << >>, << >>)),
          threw |-> TRUE]
    ELSE LET snap == st.ls[ev.kind]
             d == Deliver([ls |-> st.ls, heard |-> << >>, threw |-> FALSE],
                          ev.kind, snap, st.log)
         IN  [ls    |-> d.ls,
              log   |-> Append(st.log, Logged(ev, snap, d.heard)),
              threw |-> d.threw]

RECURSIVE EmitAll(_, _)
EmitAll(st, evs) ==
    IF evs = <<>> THEN st ELSE EmitAll(Emit(st, Head(evs)), Tail(evs))

\* an admission check that applies the owed refills and leaves the token to
\* be taken by a later step
HasHitRateLimit_CheckOnly(b, t) ==
    LET r == Refill(b, t)
    IN  [hit |-> ~Admitted(r), bucket |-> r]

\* the limiter's admission check as the dispatcher uses it: owed refills are
\* applied, and an admitted caller takes its token in the same step
HasHitRateLimit(b, t) ==
    LET r == Refill(b, t)
    IN  IF Admitted(r) THEN [hit |-> FALSE, bucket |-> Consume(r)]
        ELSE [hit |-> TRUE, bucket |-> r]

\* one iteration of waitUntilCanMakeRequest: admitted callers consume and
\* return, the others sleep for the time until the next token
WaitIteration(b, t) ==
    LET r == Refill(b, t)
    IN  IF Admitted(r)
        THEN [admitted |-> TRUE, bucket |-> Consume(r), sleep |-> 0]
        ELSE [admitted |-> FALSE, bucket |-> r,
              sleep |-> TimeUntilNextToken(r, t)]

\* ---------------------------------------------------------------- dispatcher
BaseUrl == "https://keyauth.win/api/seller"

\* the parameters each public operation builds for its request
Params(op) ==
    CASE op = "verify"       -> [type |-> "verify", key |-> "LICENSE"]
      [] op = "add"          -> [type |-> "add", format |-> "JSON"]
      [] op = "fetchallkeys" -> [type |-> "fetchallkeys"]
      [] op = "info"         -> [type |-> "info", key |-> "LICENSE"]

\* the seller key the client was constructed with
SellerKey == "SELLER-KEY"

\* the parameters handed to the transport: {...params, sellerkey}
TransportParams(params) == Spread2(params, [sellerkey |-> SellerKey])

\* bodies the server answers with
Bodies ==
    { [success |-> TRUE, message |-> "ok"],
      [success |-> FALSE, message |-> "invalid session"] }

ValidateStatus(status) == status \in {200, 302, 403, 404, 406}

IdleCall ==
    [pc |-> "idle", op |-> "verify", wrapped |-> FALSE,
     skipResponse |-> FALSE, skipError |-> FALSE,
     startTime |-> 0, wakeAt |-> 0,
     transport |-> "none", sent |-> 0, query |-> Undefined,
     body |-> Undefined,
     mr |-> Undefined, outcome |-> "pending", value |-> Undefined]

Event(kind, c, data) == [kind |-> kind, call |-> c, data |-> data]

\* the synthetic response published when the admission check fails
RateLimitEvents(c, cr, startTime, t) ==
    << Event("response", c,
             [type |-> "ratelimit", success |-> FALSE,
              message |-> "Client Api rate limit hit please wait",
              time |-> startTime - t]) >>

\* _ErrorHandler without its early return for a successful body
ErrorHandlerEvents_NoReturn(c, body, type) ==
    << Event("error", c,
             Spread2(body, [errorCode |-> "Unknown", type |-> type])) >>

\* _ErrorHandler: nothing for a successful body, else one error event
ErrorHandlerEvents(c, body, type) ==
    IF body.success = TRUE THEN << >>
    ELSE << Event("error", c,
                  Spread2(body, [errorCode |-> "Unknown", type |-> type])) >>

\* a response event that merges the parameters handed to the transport
ResponseEvent_WithCredential(c, body, params, responseTime) ==
    Event("response", c,
          Spread2(Spread2(body, TransportParams(params)),
                  [time |-> responseTime]))

ResponseEvent(c, body, params, responseTime) ==
    Event("response", c,
          Spread2(Spread2(body, params), [time |-> responseTime]))

RequestEvent(c, body, params, responseTime) ==
    Event("request", c,
          [type |-> params.type,
           request |-> [url |-> BaseUrl, params |-> params],
           response |-> Spread2(body, [time |-> responseTime])])

\* the emits of _makeRequest after the transport answered, in program order
AnswerEvents(c, cr, body, responseTime) ==
    (IF ~cr.skipError
        THEN ErrorHandlerEvents(c, body, Params(cr.op).type) ELSE << >>)
    \o (IF ~cr.skipResponse
        THEN << ResponseEvent(c, body, Params(cr.op), responseTime) >>
        ELSE << >>)
    \o << RequestEvent(c, body, Params(cr.op), responseTime) >>

\* a catch block that publishes an audit event of the failed request
CatchEvents_Audit(c, cr) ==
    << Event("request", c,
             [type |-> Params(cr.op).type,
              request |-> [url |-> BaseUrl, params |-> Params(cr.op)],
              response |-> Undefined]) >>

\* the emits of the catch block: it only logs
CatchEvents(c, cr) == << >>

\* what _makeRequest resolves with once its emits ran: an exception in the
\* try block ends in the catch block, which returns nothing
MakeRequestResult(threw, body, responseTime) ==
    IF threw THEN Undefined ELSE Spread2(body, [time |-> responseTime])

\* ---------------------------------------------------------------- the store
\* SimpleStore keeps a snapshot that its handlers, registered on the client
\* with on, update from the events they are invoked with. Strings and lists
\* are held in records, so that every value compares with undefined.
Str(x) == [str |-> x]
List(x) == [list |-> x]

\* a ?? d for the property f of o
Nullish(o, f, d) == IF f \in DOMAIN o THEN o[f] ELSE d

\* the fields of a new SimpleStore
InitialStore ==
    [initialized |-> FALSE, session |-> Undefined, user |-> Undefined,
     appInfo |-> Undefined, response |-> Undefined, onlineUsers |-> List(<< >>)]

\* an INIT handler that creates the session and leaves the flag
OnInit_SessionOnly(s, data) ==
    [s EXCEPT !.session = [id |-> Nullish(data, "sessionid", Str("")),
                           new |-> Nullish(data, "newSession", TRUE),
                           validated |-> FALSE]]

OnInit(s, data) ==
    [s EXCEPT !.initialized = TRUE,
              !.session = [id |-> Nullish(data, "sessionid", Str("")),
                           new |-> Nullish(data, "newSession", TRUE),
                           validated |-> FALSE]]

OnLogin(s, data) ==
    [s EXCEPT !.user = Spread2(SpreadOf(Get(data, "info")),
                               [metaData |-> Get(data, "metaData")]),
              !.session = IF IsUndefined(@) THEN @
                          ELSE [@ EXCEPT !.validated = TRUE]]

OnFetchStats(s, data) == [s EXCEPT !.appInfo = Get(data, "appinfo")]

OnResponse(s, data) == [s EXCEPT !.response = data]

\* a LOG_OUT handler that clears the user and leaves the session validated
OnLogout_KeepsValidated(s, data) == [s EXCEPT !.user = Undefined]

OnLogout(s, data) ==
    [s EXCEPT !.user = Undefined,
              !.session = IF IsUndefined(@) THEN @
                          ELSE [@ EXCEPT !.validated = FALSE]]

\* a BAN handler that leaves the user in place
OnBan_KeepUser(s, data) == s

OnBan(s, data) == [s EXCEPT !.user = Undefined]

OnUpgrade(s, data) == [s EXCEPT !.user = Undefined]

\* a CHANGE_USERNAME handler without the test for a held user
OnChangeUsername_Creates(s, data) ==
    [s EXCEPT !.user = Spread2(SpreadOf(@),
                               [username |-> Get(data, "newUsername")])]

OnChangeUsername(s, data) ==
    IF IsUndefined(s.user) THEN s
    ELSE [s EXCEPT !.user = Spread2(@, [username |-> Get(data, "newUsername")])]

OnMetadata(s, data) ==
    IF IsUndefined(s.user) THEN s
    ELSE [s EXCEPT !.user = Spread2(@, [metaData |-> Get(data, "metaData")])]

\* a FETCH_ONLINE handler that adds the users to the ones it holds
OnFetchOnline_Appending(s, data) ==
    [s EXCEPT !.onlineUsers =
        IF IsUndefined(@) \/ IsUndefined(Get(data, "users")) THEN Get(data, "users")
        ELSE List(@.list \o Get(data, "users").list)]

OnFetchOnline(s, data) == [s EXCEPT !.onlineUsers = Get(data, "users")]

\* the handler startListeners registers for each kind
StoreHandle(s, ev) ==
    CASE ev.kind = "init"           -> OnInit(s, ev.data)
      [] ev.kind = "login"          -> OnLogin(s, ev.data)
      [] ev.kind = "fetchStats"     -> OnFetchStats(s, ev.data)
      [] ev.kind = "response"       -> OnResponse(s, ev.data)
      [] ev.kind = "logout"         -> OnLogout(s, ev.data)
      [] ev.kind = "ban"            -> OnBan(s, ev.data)
      [] ev.kind = "upgrade"        -> OnUpgrade(s, ev.data)
      [] ev.kind = "changeUsername" -> OnChangeUsername(s, ev.data)
      [] ev.kind = "metadata"       -> OnMetadata(s, ev.data)
      [] ev.kind = "fetchOnline"    -> OnFetchOnline(s, ev.data)
      [] OTHER                      -> s

\* the read accessors of the store
Accessors ==
    {"initialized", "session", "user", "appInfo", "onlineUsers", "response"}

\* get response: when the held response has an info property, the getter
\* assigns the user's metaData to the held object before it returns it
ResponseGetter(s) ==
    IF ~IsUndefined(s.response) /\ ~IsUndefined(Get(s.response, "info"))
    THEN [s EXCEPT !.response =
              Spread2(@, [metaData |-> Get(s.user, "metaData")])]
    ELSE s

\* the store after a read of the accessor acc: every getter but response
\* only returns its field
Getter(s, acc) == IF acc = "response" THEN ResponseGetter(s) ELSE s

Init ==
    /\ now = 0
    /\ store = InitialStore
    /\ \E m \in 1 .. MaxCapacity, r \in 1 .. MaxRefillRate :
          rl = [tokens |-> m, lastRefillAt |-> 0,
                maxTokens |-> m, refillRate |-> r]
    /\ listeners = [k \in AllKinds |-> << >>]
    /\ calls = [c \in Calls |-> IdleCall]
    /\ log = << >>

\* time passes
Tick ==
    /\ UNCHANGED store
    /\ now < MaxTime
    /\ now' = now + 1
    /\ UNCHANGED <<rl, listeners, calls, log>>

\* the limiter's scheduled refill
ScheduledRefill ==
    /\ UNCHANGED store
    /\ Refill(rl, now) # rl
    /\ rl' = Refill(rl, now)
    /\ UNCHANGED <<now, listeners, calls, log>>

\* a request of the same client that is not followed here passes the
\* admission check and takes its token
OtherTraffic ==
    /\ UNCHANGED store
    /\ ~HasHitRateLimit(rl, now).hit
    /\ rl' = HasHitRateLimit(rl, now).bucket
    /\ UNCHANGED <<now, listeners, calls, log>>

\* Api.on / Api.once with a callback that behaves as act, while fewer than
\* cap handlers are registered
Subscribe(kind, once, act, cap) ==
    /\ UNCHANGED store
    /\ TotalListeners < cap
    /\ listeners' = [listeners EXCEPT ![kind] =
          Append(@, Handler(FreshId(listeners, log, << >>), once, act))]
    /\ UNCHANGED <<now, rl, calls, log>>

Register(kind, once, act) == Subscribe(kind, once, act, MaxListeners)

On(kind, act) == Register(kind, FALSE, act)
Once(kind, act) == Register(kind, TRUE, act)

\* _makeRequest returns mr to its caller: a direct call is settled with it,
\* a public operation continues with it
Return(c, cr, mr, transport, body) ==
    IF cr.wrapped
    THEN [cr EXCEPT !.pc = "returned", !.mr = mr, !.startTime = 0,
                    !.wakeAt = 0, !.transport = transport, !.body = body]
    ELSE [cr EXCEPT !.pc = "done", !.mr = mr, !.outcome = "resolved",
                    !.value = mr, !.startTime = 0, !.wakeAt = 0,
                    !.transport = transport, !.body = body]

\* _makeRequest up to its first await, for the call record cr of call c:
\* a failed admission check publishes the notice and waits, unless a
\* listener of the notice throws, which ends the call in the catch block;
\* an admitted attempt starts its transport call
MakeRequest(c, cr, b) ==
    LET h == HasHitRateLimit(b, now)
    IN  IF h.hit
        THEN LET st == EmitAll([ls |-> listeners, log |-> log, threw |-> FALSE],
                               RateLimitEvents(c, cr, now, now))
                 w  == WaitIteration(h.bucket, now)
             IN  IF st.threw
                 THEN LET fin == EmitAll([st EXCEPT !.threw = FALSE],
                                         CatchEvents(c, cr))
                      IN  /\ rl' = h.bucket
                          /\ listeners' = fin.ls
                          /\ log' = fin.log
                          /\ calls' = [calls EXCEPT ![c] =
                                Return(c, cr, Undefined, "none", Undefined)]
                 ELSE /\ rl' = w.bucket
                      /\ listeners' = st.ls
                      /\ log' = st.log
                      /\ calls' = [calls EXCEPT ![c] =
                             [cr EXCEPT !.pc = "waiting", !.startTime = 0,
                                        !.wakeAt = now + w.sleep]]
        ELSE /\ rl' = h.bucket
             /\ calls' = [calls EXCEPT ![c] =
                    [cr EXCEPT !.pc = "inflight", !.startTime = now,
                               !.sent = @ + 1,
                               !.query = TransportParams(Params(cr.op))]]
             /\ UNCHANGED <<listeners, log>>

\* a direct dispatcher call _makeRequest({params, skipResponse, skipError})
RawRequest(c, op, skipResponse, skipError) ==
    /\ UNCHANGED store
    /\ calls[c].pc = "idle"
    /\ \A d \in DOMAIN calls : d < c => calls[d].pc # "idle"
    /\ UNCHANGED now
    /\ MakeRequest(c, [IdleCall EXCEPT !.op = op, !.wrapped = FALSE,
                                       !.skipResponse = skipResponse,
                                       !.skipError = skipError], rl)

\* a public endpoint operation up to its await of _makeRequest({params})
PublicOp(c, op) ==
    /\ UNCHANGED store
    /\ calls[c].pc = "idle"
    /\ \A d \in DOMAIN calls : d < c => calls[d].pc # "idle"
    /\ UNCHANGED now
    /\ MakeRequest(c, [IdleCall EXCEPT !.op = op, !.wrapped = TRUE], rl)

\* a wake-up that continues the suspended attempt: once the wait admits
\* the caller, the transport call starts without a new admission check
Wake_Continues(c) ==
    /\ UNCHANGED store
    /\ calls[c].pc = "waiting"
    /\ now >= calls[c].wakeAt
    /\ UNCHANGED <<now, listeners, log>>
    /\ LET w == WaitIteration(rl, now)
       IN  /\ rl' = w.bucket
           /\ calls' = IF w.admitted
                       THEN [calls EXCEPT ![c].pc = "inflight",
                                          ![c].sent = @ + 1]
                       ELSE [calls EXCEPT ![c].wakeAt = now + w.sleep]

\* the sleep of waitUntilCanMakeRequest ends: the loop checks again, and an
\* admitted caller returns into the retry _makeRequest({params, ...})
Wake(c) ==
    /\ UNCHANGED store
    /\ calls[c].pc = "waiting"
    /\ now >= calls[c].wakeAt
    /\ UNCHANGED now
    /\ LET w == WaitIteration(rl, now)
       IN  IF w.admitted
           THEN MakeRequest(c, calls[c], w.bucket)
           ELSE /\ rl' = w.bucket
                /\ calls' = [calls EXCEPT ![c].wakeAt = now + w.sleep]
                /\ UNCHANGED <<listeners, log>>

\* the transport answers with a status and a body
TransportAnswer(c, status, body) ==
    /\ UNCHANGED store
    /\ calls[c].pc = "inflight"
    /\ UNCHANGED <<now, rl>>
    /\ LET cr == calls[c]
           responseTime == now - cr.startTime
           st0 == [ls |-> listeners, log |-> log, threw |-> FALSE]
       IN  IF ValidateStatus(status)
           THEN LET st == EmitAll(st0, AnswerEvents(c, cr, body, responseTime))
                    fin == IF st.threw
                           THEN EmitAll([st EXCEPT !.threw = FALSE],
                                        CatchEvents(c, cr))
                           ELSE st
                IN  /\ listeners' = fin.ls
                    /\ log' = fin.log
                    /\ calls' = [calls EXCEPT ![c] =
                          Return(c, cr,
                                 MakeRequestResult(st.threw, body, responseTime),
                                 "answered", body)]
           ELSE LET fin == EmitAll(st0, CatchEvents(c, cr))
                IN  /\ listeners' = fin.ls
                    /\ log' = fin.log
                    /\ calls' = [calls EXCEPT ![c] =
                          Return(c, cr, Undefined, "failed", Undefined)]

\* a transport failure after which the dispatcher makes the request again
TransportThrow_Retrying(c) ==
    /\ UNCHANGED store
    /\ calls[c].pc = "inflight"
    /\ UNCHANGED now
    /\ MakeRequest(c, calls[c], rl)

\* the transport throws (network error)
TransportThrow(c) ==
    /\ UNCHANGED store
    /\ calls[c].pc = "inflight"
    /\ UNCHANGED <<now, rl>>
    /\ LET cr == calls[c]
           fin == EmitAll([ls |-> listeners, log |-> log, threw |-> FALSE],
                          CatchEvents(c, cr))
       IN  /\ listeners' = fin.ls
           /\ log' = fin.log
           /\ calls' = [calls EXCEPT ![c] =
                 Return(c, cr, Undefined, "failed", Undefined)]

\* ------------------------------------------------------- public operations
\* reading a property of undefined, or `"keys" in undefined`, is a TypeError
OpThrows(op, mr) ==
    CASE op = "verify"       -> FALSE
      [] op = "add"          -> IsUndefined(mr)
      [] op = "fetchallkeys" -> IsUndefined(mr)
      [] op = "info"         -> IsUndefined(mr)

\* the response an operation builds from what _makeRequest returned
OpResponse(op, mr) ==
    CASE op = "verify"       -> mr
      [] op = "add"          ->
            [message |-> Get(mr, "message"), success |-> Get(mr, "success"),
             keys |-> IF "keys" \in DOMAIN mr THEN mr.keys
                      ELSE << Get(mr, "key") >>,
             time |-> Get(mr, "time")]
      [] op = "fetchallkeys" -> mr
      [] op = "info"         ->
            [success |-> Get(mr, "success"),
             message |-> IF Get(mr, "success") = TRUE
                         THEN "Successfully retrieved license information"
                         ELSE Get(mr, "message"),
             duration |-> Get(mr, "duration"), hwid |-> Get(mr, "hwid"),
             note |-> Get(mr, "note"), status |-> Get(mr, "status"),
             level |-> Get(mr, "level"), createdBy |-> Get(mr, "createdby"),
             usedBy |-> Get(mr, "usedby"), usedOn |-> Get(mr, "usedon"),
             creationDate |-> Get(mr, "creationdate"),
             time |-> Get(mr, "time")]

\* the event of the operation's own kind
OpEvents(c, op, mr) == << Event(op, c, SpreadOf(OpResponse(op, mr))) >>

\* the continuation of a public operation after `await this._makeRequest`
OpContinue(c) ==
    /\ UNCHANGED store
    /\ calls[c].pc = "returned"
    /\ UNCHANGED <<now, rl>>
    /\ LET cr == calls[c]
       IN  IF OpThrows(cr.op, cr.mr)
           THEN /\ calls' = [calls EXCEPT ![c].pc = "done",
                                          ![c].outcome = "rejected"]
                /\ UNCHANGED <<listeners, log>>
           ELSE LET st == EmitAll([ls |-> listeners, log |-> log,
                                   threw |-> FALSE],
                                  OpEvents(c, cr.op, cr.mr))
                IN  /\ listeners' = st.ls
                    /\ log' = st.log
                    /\ calls' = [calls EXCEPT
                          ![c].pc = "done",
                          ![c].outcome = IF st.threw THEN "rejected"
                                         ELSE "resolved",
                          ![c].value = IF st.threw THEN Undefined
                                       ELSE OpResponse(cr.op, cr.mr)]

Next ==
    \/ Tick
    \/ ScheduledRefill
    \/ OtherTraffic
    \/ \E k \in EventKinds, a \in {"return", "throw"} : On(k, a)
    \/ \E k \in EventKinds : Once(k, "return")
    \/ \E c \in DOMAIN calls, op \in Ops, sr \in BOOLEAN, se \in BOOLEAN :
          RawRequest(c, op, sr, se)
    \/ \E c \in DOMAIN calls, op \in Ops : PublicOp(c, op)
    \/ \E c \in DOMAIN calls : Wake(c)
    \/ \E c \in DOMAIN calls, status \in Statuses, body \in Bodies :
          TransportAnswer(c, status, body)
    \/ \E c \in DOMAIN calls : TransportThrow(c)
    \/ \E c \in DOMAIN calls : OpContinue(c)

Spec == Init /\ [][Next]_vars

\* ------------------------------------------------------------- properties
EventsOf(c, kind) == SelectSeq(log, LAMBDA e : e.call = c /\ e.kind = kind)
Count(c, kind) == Len(EventsOf(c, kind))

\* the response events of a call that carry the transport's answer (the
\* others are the rate-limit notices of the admission check)
AnswerResponses(c) ==
    SelectSeq(log, LAMBDA e : /\ e.call = c /\ e.kind = "response"
                              /\ e.data.type # "ratelimit")

Answered(c) == calls[c].transport = "answered"
Failed(c) == calls[c].transport = "failed"
FailedBody(c) == Answered(c) /\ calls[c].body.success = FALSE

\* C1: every dispatcher call whose transport call returned a body has
\* published exactly one request event, whatever the skip flags, the success
\* flag and the registered handlers.
C1_ExactlyOneRequest ==
    \A c \in DOMAIN calls : Answered(c) => Count(c, "request") = 1

\* C2: a dispatcher call whose body has success=false resolves with a value
\* that carries success=false and the body's message.
C2_FailureStillResolves ==
    \A c \in DOMAIN calls :
        FailedBody(c) =>
            /\ ~IsUndefined(calls[c].mr)
            /\ calls[c].mr.success = FALSE
            /\ calls[c].mr.message = calls[c].body.message

\* C3: a dispatcher call made with skipResponse=true publishes no response
\* event at any point of its life, its rate-limit waits included.
C3_SkipResponseSilences ==
    \A c \in DOMAIN calls : calls[c].skipResponse => Count(c, "response") = 0

\* C4: with skipError=true and a body with success=false the call publishes
\* no error event, and still its request event and (unless skipResponse) its
\* response event.
C4_SkipErrorOnlySuppressesError ==
    \A c \in DOMAIN calls :
        (FailedBody(c) /\ calls[c].skipError) =>
            /\ Count(c, "error") = 0
            /\ Count(c, "request") = 1
            /\ Len(AnswerResponses(c)) = (IF calls[c].skipResponse THEN 0 ELSE 1)

\* C5: over its whole life, rate-limit waits and retries included, a call
\* publishes at most one response event and at most one error event, and
\* exactly one request event once its transport call returned a body.
C5_EventCompleteness ==
    \A c \in DOMAIN calls :
        /\ Count(c, "response") <= 1
        /\ Count(c, "error") <= 1
        /\ Answered(c) => Count(c, "request") = 1

\* C6: a call publishes an error event iff its body has success=false and
\* skipError is not set; the event carries the body's fields and the
\* endpoint tag of the request as its type.
C6_ErrorEventIffFailure ==
    \A c \in DOMAIN calls :
        /\ Count(c, "error") =
              (IF FailedBody(c) /\ ~calls[c].skipError THEN 1 ELSE 0)
        /\ \A i \in 1 .. Len(EventsOf(c, "error")) :
              LET e == EventsOf(c, "error")[i]
              IN  /\ e.data.type = Params(calls[c].op).type
                  /\ \A f \in DOMAIN calls[c].body :
                        e.data[f] = calls[c].body[f]

C6_Witness ==
    \E c \in DOMAIN calls :
        /\ FailedBody(c) /\ ~calls[c].skipError
        /\ Count(c, "error") = 1
        /\ EventsOf(c, "error")[1].data.type = "add"

\* C7: from the step in which its transport call fails, a call publishes no
\* response event and no request event.
C7_NoEventsOnTransportFailure ==
    [][ \A c \in DOMAIN calls :
            Failed(c)' =>
                /\ Count(c, "response")' = Count(c, "response")
                /\ Count(c, "request")' = 0 ]_vars

C7_Witness ==
    \E c \in DOMAIN calls :
        Failed(c) /\ calls[c].pc = "done" /\ calls[c].wrapped

\* C8: after a transport failure a public operation hands its caller a
\* rejection or a defined error sentinel that does not carry success=true.
C8_NoSuccessShapeOnFailure ==
    \A c \in DOMAIN calls :
        (calls[c].wrapped /\ calls[c].pc = "done" /\ Failed(c)) =>
            \/ calls[c].outcome = "rejected"
            \/ /\ ~IsUndefined(calls[c].value)
               /\ "success" \in DOMAIN calls[c].value
                     => calls[c].value.success # TRUE

\* C9: a public operation never rejects: for every outcome of the transport
\* step its promise resolves with a shaped result.
C9_NoRejectionEscapes ==
    \A c \in DOMAIN calls :
        (calls[c].wrapped /\ calls[c].pc = "done") =>
            /\ calls[c].outcome = "resolved"
            /\ ~IsUndefined(calls[c].value)

\* C10: in every reachable state of the limiter 0 <= tokens <= capacity.
C10_TokensWithinCapacity ==
    /\ 0 <= rl.tokens
    /\ rl.tokens <= rl.maxTokens

\* the bucket was emptied by an admitted call and refilled up to its cap
C10_Witness ==
    /\ rl.tokens = rl.maxTokens
    /\ rl.lastRefillAt >= 2
    /\ \E c \in DOMAIN calls : calls[c].pc = "done"

\* the rate-limit notices of a call: one per failed admission check
Notices(c) ==
    SelectSeq(log, LAMBDA e : /\ e.call = c /\ e.kind = "response"
                              /\ e.data.type = "ratelimit")

\* C26: a transport-level failure is not retried: a dispatcher call makes at
\* most one transport call, the one of its admitted attempt, and a call whose
\* transport call failed has returned without another one.
C26_TransportFailureNotRetried ==
    \A c \in DOMAIN calls :
        /\ calls[c].sent <= 1
        /\ Failed(c) => calls[c].sent = 1 /\ calls[c].pc \in {"returned", "done"}

\* a call that waited for a token was admitted, its one transport call
\* failed, and it is settled
C26_Witness ==
    \E c \in DOMAIN calls :
        /\ Failed(c)
        /\ calls[c].pc = "done"
        /\ calls[c].sent = 1
        /\ Len(Notices(c)) >= 1

\* the events a step appends to the log
Appended == SubSeq(log', Len(log) + 1, Len(log'))

\* C28: the attempt made after a rate-limit wait is a fresh attempt: it has
\* the parameters and the flags of the original call, it runs the admission
\* check again (it starts its transport call only when that check admits it,
\* and it publishes a new notice and waits again when the check fails), and
\* the elapsed time of its result and of its events is measured from the
\* start of the admitted attempt.
C28_RetryIsFresh ==
    [][\A c \in DOMAIN calls :
        /\ (calls[c].pc = "waiting" /\ calls'[c] # calls[c]) =>
              LET w == WaitIteration(rl, now)
                  h == HasHitRateLimit(w.bucket, now)
              IN  /\ calls'[c].op = calls[c].op
                  /\ calls'[c].wrapped = calls[c].wrapped
                  /\ calls'[c].skipResponse = calls[c].skipResponse
                  /\ calls'[c].skipError = calls[c].skipError
                  /\ calls'[c].pc = "inflight" =>
                        /\ w.admitted /\ ~h.hit /\ rl' = h.bucket
                        /\ calls'[c].startTime = now
                        /\ Appended = << >>
                  /\ (w.admitted /\ h.hit) =>
                        /\ calls'[c].pc # "inflight"
                        /\ Len(Appended) = 1
                        /\ Appended[1].data.type = "ratelimit"
        /\ (calls[c].pc = "inflight" /\ calls'[c].pc # "inflight") =>
              LET elapsed == now - calls[c].startTime
              IN  /\ ~IsUndefined(calls'[c].mr) => calls'[c].mr.time = elapsed
                  /\ \A i \in DOMAIN Appended :
                        /\ Appended[i].kind = "response"
                              => Appended[i].data.time = elapsed
                        /\ Appended[i].kind = "request"
                              => Appended[i].data.response.time = elapsed]_vars

\* a call that was made when no token was left has waited, was admitted by
\* the check of its retried attempt at the end of the period, and resolved
\* with the elapsed time of that attempt
C28_Witness ==
    \E c \in DOMAIN calls :
        /\ calls[c].pc = "done"
        /\ Answered(c)
        /\ ~IsUndefined(calls[c].value)
        /\ calls[c].value.time = 0
        /\ now = MaxTime
        /\ Len(Notices(c)) >= 1
        /\ Count(c, "request") = 1

\* ------------------------------------------------ properties of the emitter
\* C14: a call that is suspended after a failed admission check has
\* published one ratelimit-kind event per failed check.
C14_RateLimitEventPerFailedCheck ==
    \A c \in DOMAIN calls :
        /\ calls[c].pc = "waiting" => Count(c, "ratelimit") >= 1
        /\ Count(c, "ratelimit") = Len(Notices(c))

\* the events of call c whose emit invoked a handler that threw
HeardThrow(c) ==
    SelectSeq(log, LAMBDA e : /\ e.call = c
                              /\ \E h \in Range(e.heard) : h.act = "throw")

\* C16: an exception thrown by a handler does not reach the publisher: a
\* call whose transport call returned a body still publishes its request
\* event and resolves with the body, also when a handler of one of its
\* events threw.
C16_HandlerExceptionContained ==
    \A c \in DOMAIN calls :
        (Answered(c) /\ HeardThrow(c) # << >>) =>
            /\ Count(c, "request") = 1
            /\ ~IsUndefined(calls[c].mr)

\* the events of call c published to a kind that had no subscriber
Unheard(c, kind) ==
    SelectSeq(log, LAMBDA e : e.call = c /\ e.kind = kind /\ e.snap = << >>)

\* C17: publishing to a kind without subscribers raises nothing, for the
\* error kind too: a call whose error event found no subscriber still
\* publishes its response event (unless skipped) and its request event and
\* resolves with the body.
C17_NoSubscriberIsSilent ==
    \A c \in DOMAIN calls :
        Unheard(c, "error") # << >> =>
            /\ Len(AnswerResponses(c)) = (IF calls[c].skipResponse THEN 0 ELSE 1)
            /\ Count(c, "request") = 1
            /\ ~IsUndefined(calls[c].mr)

\* --------------------------------------------------------- the emitter alone
\* The emitter with up to MaxBusListeners handlers on two kinds, and emits
\* as the dispatcher performs them.
BusKinds == {"response", "error"}

BusOn(kind, act) == Subscribe(kind, FALSE, act, MaxBusListeners)
BusOnce(kind, act) == Subscribe(kind, TRUE, act, MaxBusListeners)

\* this._eventEmitter.emit(kind, payload); an exception that leaves emit is
\* caught by the caller
Publish(kind) ==
    /\ UNCHANGED store
    /\ Len(log) < MaxPublishes
    /\ LET st == Emit([ls |-> listeners, log |-> log, threw |-> FALSE],
                      Event(kind, 0, EmptyObject))
       IN  /\ listeners' = st.ls
           /\ log' = st.log
    /\ UNCHANGED <<now, rl, calls>>

NextBus ==
    \/ \E k \in BusKinds, a \in HandlerActs : BusOn(k, a)
    \/ \E k \in BusKinds, a \in HandlerActs : BusOnce(k, a)
    \/ \E k \in BusKinds : Publish(k)

\* the limiter takes no part here: one configuration of it is enough
InitBus == Init /\ rl.maxTokens = 1 /\ rl.refillRate = 1

SpecBus == InitBus /\ [][NextBus]_vars

\* how often handler h was invoked by the emit logged as e
TimesHeard(e, h) == Len(SelectSeq(e.heard, LAMBDA g : g.id = h.id))

\* how often handler h was invoked by all emits so far
TimesHeardEver(h) ==
    LET RECURSIVE Sum(_)
        Sum(i) == IF i = 0 THEN 0 ELSE TimesHeard(log[i], h) + Sum(i - 1)
    IN  Sum(Len(log))

\* C15: every handler registered for a kind when an emit of that kind starts
\* is invoked exactly once by it (a persistent handler by every such emit, a
\* once-handler by the first one after its registration); a once-handler is
\* invoked at most once in all and is not registered any more afterwards;
\* and no handler is invoked by an emit of a kind it was not registered for.
C15_OnceAndOnDelivery ==
    /\ \A i \in DOMAIN log :
          \A h \in Range(log[i].snap) : TimesHeard(log[i], h) = 1
    /\ \A i \in DOMAIN log :
          \A h \in Range(log[i].heard) :
              /\ h.once => TimesHeardEver(h) = 1
              /\ h.once => \A k \in AllKinds : h \notin Range(listeners[k])
              /\ \A j \in DOMAIN log :
                    log[j].kind # log[i].kind => TimesHeard(log[j], h) = 0

\* an emit during which the list of its kind was changed: a handler added
\* one, or a once-handler was removed
MutatedDuring(e) ==
    \E h \in Range(e.heard) : h.once \/ h.act \in {"on", "once"}

\* C18: an emit during which handlers of its kind are added or removed
\* invokes the handlers that were registered when it started, each exactly
\* once and in order, and no handler added during it.
C18_SnapshotDelivery ==
    \A i \in DOMAIN log :
        MutatedDuring(log[i]) => log[i].heard = log[i].snap

\* ------------------------------------------------------- concurrent calls
\* ConcCalls dispatcher calls of one client, issued without awaiting each
\* other: they share the limiter and the emitter, and their steps interleave
\* at the awaits.
InitConc ==
    /\ now = 0
    /\ store = InitialStore
    /\ \E m \in 1 .. MaxCapacity, r \in 1 .. MaxRefillRate :
          rl = [tokens |-> m, lastRefillAt |-> 0,
                maxTokens |-> m, refillRate |-> r]
    /\ listeners = [k \in AllKinds |-> << >>]
    /\ calls = [c \in 1 .. ConcCalls |-> IdleCall]
    /\ log = << >>

NextConc ==
    \/ Tick
    \/ \E c \in DOMAIN calls, op \in Ops : RawRequest(c, op, FALSE, FALSE)
    \/ \E c \in DOMAIN calls : Wake(c)
    \/ \E c \in DOMAIN calls, body \in Bodies : TransportAnswer(c, 200, body)

SpecConc == InitConc /\ [][NextConc]_vars

\* the calls whose transport call was started
Started ==
    {c \in DOMAIN calls : calls[c].pc = "inflight" \/ calls[c].transport # "none"}

\* the refills credited to the bucket so far: lastRefillAt advances by one
\* refill interval per token
RefilledSoFar == rl.lastRefillAt \div rl.refillRate

\* C11: at every moment the number of transport calls started so far is at
\* most the initial capacity plus the number of tokens refilled so far.
C11_NoTokenAdmitsTwo ==
    Cardinality(Started) <= rl.maxTokens + RefilledSoFar

\* the whole capacity is in use by concurrent calls and one more call waits
C11_Witness ==
    /\ rl.maxTokens = 2
    /\ Cardinality({c \in DOMAIN calls : calls[c].pc = "inflight"}) = 2
    /\ \E c \in DOMAIN calls : calls[c].pc = "waiting"
    /\ Cardinality(Started) = rl.maxTokens + RefilledSoFar

\* C13: every call resolves with the success flag and the payload of its own
\* transport response, and its request event carries its own endpoint tag
\* and parameters and a response equal to the value it resolves with.
C13_OwnResponse ==
    \A c \in DOMAIN calls :
        (calls[c].pc = "done" /\ Answered(c)) =>
            /\ ~IsUndefined(calls[c].value)
            /\ \A f \in DOMAIN calls[c].body :
                  calls[c].value[f] = calls[c].body[f]
            /\ \A i \in 1 .. Count(c, "request") :
                  LET e == EventsOf(c, "request")[i]
                  IN  /\ e.data.type = Params(calls[c].op).type
                      /\ e.data.request.params = Params(calls[c].op)
                      /\ e.data.response = calls[c].value

\* ------------------------------------------------------------ termination
\* LiveCalls dispatcher calls issued back to back, with a transport that
\* answers and a clock that keeps running.
InitLive ==
    /\ now = 0
    /\ store = InitialStore
    /\ \E m \in 1 .. MaxCapacity, r \in 1 .. MaxRefillRate :
          rl = [tokens |-> m, lastRefillAt |-> 0,
                maxTokens |-> m, refillRate |-> r]
    /\ listeners = [k \in AllKinds |-> << >>]
    /\ calls = [c \in 1 .. LiveCalls |-> IdleCall]
    /\ log = << >>

\* the time stamps kept in the state are at least d
StampsAtLeast(d) ==
    /\ rl.lastRefillAt >= d
    /\ \A c \in DOMAIN calls :
          /\ calls[c].pc = "waiting" => calls[c].wakeAt >= d
          /\ calls[c].pc = "inflight" => calls[c].startTime >= d

\* time passes without end: once the clock shows MaxTime, the clock and every
\* time stamp kept in the state are read against an origin one unit later,
\* which leaves every duration the program computes unchanged. The events
\* logged so far are dropped: no step of the program reads them.
Elapse ==
    /\ UNCHANGED store
    /\ log' = << >>
    /\ UNCHANGED listeners
    /\ IF now < MaxTime
       THEN /\ now' = now + 1
            /\ UNCHANGED <<rl, calls>>
       ELSE /\ StampsAtLeast(1)
            /\ UNCHANGED now
            /\ rl' = [rl EXCEPT !.lastRefillAt = @ - 1]
            /\ calls' = [c \in DOMAIN calls |->
                  [calls[c] EXCEPT
                     !.wakeAt = IF calls[c].pc = "waiting" THEN @ - 1 ELSE @,
                     !.startTime = IF calls[c].pc = "inflight" THEN @ - 1
                                   ELSE @]]

\* the body of a successful answer
OkBody == [success |-> TRUE, message |-> "ok"]

NextLive ==
    \/ Elapse
    \/ ScheduledRefill
    \/ \E c \in DOMAIN calls : RawRequest(c, "verify", FALSE, FALSE)
    \/ \E c \in DOMAIN calls : Wake(c)
    \/ \E c \in DOMAIN calls : TransportAnswer(c, 200, OkBody)

\* the caller issues its calls, timers fire, the transport answers, the
\* limiter's refill runs and time advances
SpecLive ==
    /\ InitLive
    /\ [][NextLive]_vars
    /\ WF_vars(Elapse)
    /\ WF_vars(ScheduledRefill)
    /\ WF_vars(\E c \in DOMAIN calls : RawRequest(c, "verify", FALSE, FALSE))
    /\ \A c \in 1 .. LiveCalls : WF_vars(Wake(c))
    /\ \A c \in 1 .. LiveCalls : WF_vars(TransportAnswer(c, 200, OkBody))

\* C12: every call issued is eventually admitted, performs its transport
\* call and resolves.
C12_EveryCallResolves ==
    \A c \in 1 .. LiveCalls : <>(calls[c].pc = "done")

\* ------------------------------------------------- the public operations
\* the operations of the license group, each called on a client whose
\* listeners return or throw and whose bucket other requests draw from
InitOps == Init

NextOps ==
    \/ Tick
    \/ OtherTraffic
    \/ \E k \in Endpoints \cup {"request", "response", "error"},
          a \in {"return", "throw"} : On(k, a)
    \/ \E c \in DOMAIN calls, op \in Endpoints : PublicOp(c, op)
    \/ \E c \in DOMAIN calls : Wake(c)
    \/ \E c \in DOMAIN calls, status \in Statuses, body \in Bodies :
          TransportAnswer(c, status, body)
    \/ \E c \in DOMAIN calls : TransportThrow(c)
    \/ \E c \in DOMAIN calls : OpContinue(c)

SpecOps == InitOps /\ [][NextOps]_vars

\* C27: a public operation whose transport call was answered has published
\* exactly one event of its own kind, after the request event of the call,
\* and it resolves with the payload of that event.
C27_OneEventOfOwnKind ==
    \A c \in DOMAIN calls :
        (calls[c].wrapped /\ calls[c].pc = "done" /\ Answered(c)) =>
            /\ Count(c, calls[c].op) = 1
            /\ calls[c].outcome = "resolved"
            /\ EventsOf(c, calls[c].op)[1].data = calls[c].value
            /\ \E i, j \in DOMAIN log :
                  /\ i < j
                  /\ log[i].call = c /\ log[i].kind = "request"
                  /\ log[j].call = c /\ log[j].kind = calls[c].op

\* ------------------------------------------------------------ store events
\* the payloads the client publishes: every payload is a BaseResponse, and
\* the fields its type marks optional may be missing
Base(success) ==
    [success |-> success,
     message |-> Str(IF success THEN "ok" ELSE "failed")]

\* the payloads with any subset of the optional fields opt added to base
WithOptional(base, opt) ==
    {Spread2(base, [f \in F |-> opt[f]]) : F \in SUBSET DOMAIN opt}

StoreEvents ==
    {[kind |-> "init", data |-> d] :
        d \in UNION {WithOptional(Base(b), [sessionid |-> Str("sid"),
                                            newSession |-> FALSE])
                     : b \in BOOLEAN}}
    \cup {[kind |-> "login", data |-> d] :
        d \in UNION {WithOptional(Base(b),
                                  [info |-> [username |-> Str("ann")],
                                   metaData |-> [theme |-> Str("dark")]])
                     : b \in BOOLEAN}}
    \cup {[kind |-> "logout", data |-> Base(b)] : b \in BOOLEAN}
    \cup {[kind |-> k, data |-> Base(TRUE)] : k \in {"ban", "upgrade"}}
    \cup {[kind |-> "changeUsername",
           data |-> Spread2(Base(TRUE), [newUsername |-> Str("bob")])]}
    \cup {[kind |-> "metadata",
           data |-> Spread2(Base(TRUE), [metaData |-> [theme |-> Str("light")]])]}
    \cup {[kind |-> "fetchStats", data |-> d] :
        d \in WithOptional(Base(TRUE), [appinfo |-> [numUsers |-> 1]])}
    \cup {[kind |-> "fetchOnline", data |-> d] :
        d \in WithOptional(Base(TRUE),
                           [users |-> List(<< [credential |-> Str("ann")] >>)])}
    \cup {[kind |-> "response",
           data |-> Spread2(Base(TRUE), [type |-> Str("check")])]}
    \cup {[kind |-> "response",
           data |-> Spread2(Base(TRUE), [type |-> Str("login"),
                                         info |-> [username |-> Str("ann")]])]}

\* the client publishes ev and the store's handler of its kind runs. The log
\* holds the payload objects: data is the object as it is now, published the
\* value it had when it was published.
Observe(ev) ==
    /\ Len(log) < MaxEvents
    /\ store' = StoreHandle(store, ev)
    /\ log' = Append(log, Spread2(ev, [published |-> ev.data]))
    /\ UNCHANGED <<now, rl, listeners, calls>>

\* the payload object the store holds as _response: the RESPONSE handler
\* keeps the reference it was given, so it is the last response published
HeldResponse ==
    MaxOf({i \in DOMAIN log : log[i].kind = "response"})

\* a caller reads an accessor of the store; what the response getter writes
\* goes to the payload object the store holds
Read(acc) ==
    /\ store' = Getter(store, acc)
    /\ log' = IF store'.response = store.response THEN log
              ELSE [log EXCEPT ![HeldResponse].data = store'.response]
    /\ UNCHANGED <<now, rl, listeners, calls>>

NextStore ==
    \/ \E ev \in StoreEvents : Observe(ev)
    \/ \E acc \in Accessors : Read(acc)

\* a new store on a new client
InitStore == InitBus

SpecStore == InitStore /\ [][NextStore]_vars

\* an event of this kind and success flag was observed
Seen(kind, success) ==
    \E i \in DOMAIN log : log[i].kind = kind /\ log[i].data.success = success

Last == log[Len(log)]

\* C19: session is undefined in every state reached before an init event
\* with success=true was observed; an init event with success=false creates
\* no session.
C19_SessionOnlyAfterInitSuccess ==
    ~Seen("init", TRUE) => IsUndefined(store.session)

\* C20: session.validated is true only in states that follow a login event
\* with success=true, and it is false in the state right after a logout.
C20_ValidatedOnlyAfterLoginSuccess ==
    ~IsUndefined(store.session) =>
        /\ store.session.validated => Seen("login", TRUE)
        /\ (log # << >> /\ Last.kind = "logout") => ~store.session.validated

\* the event observed by the step, when the step is an observation
Observed == log'[Len(log')]
Observing == Len(log') = Len(log) + 1

\* C21: user is undefined in the state right after every logout, ban or
\* upgrade event, whatever the state before the event.
C21_UserClearedOnLogoutBanUpgrade ==
    [][(Observing /\ Observed.kind \in {"logout", "ban", "upgrade"})
          => IsUndefined(store'.user)]_vars

\* a login gave the store a user and the ban that followed cleared it
C21_Witness ==
    /\ Len(log) >= 2
    /\ log[Len(log) - 1].kind = "login"
    /\ "info" \in DOMAIN log[Len(log) - 1].published
    /\ Last.kind = "ban"
    /\ IsUndefined(store.user)

\* C22: an event whose optional fields are missing leaves the snapshot
\* fields derived from them as they were: a login without info keeps the
\* user's fields, an init without sessionid keeps the session id, a
\* fetchOnline without users keeps the online users.
C22_MissingFieldsKeepSnapshot ==
    [][Observing =>
        /\ (Observed.kind = "login" /\ "info" \notin DOMAIN Observed.data
               /\ ~IsUndefined(store.user))
              => Get(store'.user, "username") = Get(store.user, "username")
        /\ (Observed.kind = "init" /\ "sessionid" \notin DOMAIN Observed.data
               /\ ~IsUndefined(store.session))
              => store'.session.id = store.session.id
        /\ (Observed.kind = "fetchOnline"
               /\ "users" \notin DOMAIN Observed.data)
              => store'.onlineUsers = store.onlineUsers]_vars

\* C23: from every snapshot, every event fed twice in a row gives the
\* snapshot it gives when fed once.
C23_ReplayIdempotent ==
    \A ev \in StoreEvents :
        StoreHandle(StoreHandle(store, ev), ev) = StoreHandle(store, ev)

\* the same login event was observed twice in a row and a user is held
C23_Witness ==
    /\ Len(log) >= 2
    /\ Last.kind = "login"
    /\ "info" \in DOMAIN Last.published
    /\ log[Len(log) - 1].published = Last.published
    /\ log[Len(log) - 1].kind = "login"
    /\ ~IsUndefined(store.user)
    /\ store = StoreHandle(store, [kind |-> "login", data |-> Last.published])

\* C24: a published payload is never modified after its publication: every
\* payload object holds the value it was published with.
C24_PayloadNeverModified ==
    \A i \in DOMAIN log : log[i].data = log[i].published

\* C25: the snapshot changes only as the effect of a delivered event; no
\* read of an accessor changes it.
C25_SnapshotChangesOnlyOnEvent ==
    [][store' # store => Observing]_vars

\* C36: in every snapshot initialized is true iff session is defined, and
\* once initialized is true no later event makes it false.
C36_InitializedIffSession ==
    [][/\ store.initialized <=> ~IsUndefined(store.session)
       /\ store'.initialized <=> ~IsUndefined(store'.session)
       /\ store.initialized => store'.initialized]_vars

\* the store was initialized and two more events were observed since
C36_Witness ==
    /\ Len(log) = 3
    /\ log[1].kind = "init"
    /\ log[2].kind = "logout"
    /\ log[3].kind = "login"
    /\ store.initialized
    /\ ~IsUndefined(store.session)

\* C37: in every snapshot, a validated session comes with a user.
C37_ValidatedImpliesUser ==
    (~IsUndefined(store.session) /\ store.session.validated)
        => ~IsUndefined(store.user)

\* every ban and every upgrade observed so far was followed by a login
NoBanSinceLogin ==
    \A i \in DOMAIN log :
        log[i].kind \in {"ban", "upgrade"}
            => \E j \in DOMAIN log : j > i /\ log[j].kind = "login"

\* C37, amended: a validated session comes with a user unless a ban or an
\* upgrade was observed since the last login.
C37_ValidatedImpliesUserUnlessBanned ==
    (~IsUndefined(store.session) /\ store.session.validated /\ NoBanSinceLogin)
        => ~IsUndefined(store.user)

\* a ban cleared the user and a login that followed it set the user again
\* and validated the session
C37_Witness ==
    /\ Len(log) = 3
    /\ log[1].kind = "init"
    /\ log[2].kind = "ban"
    /\ log[3].kind = "login"
    /\ store.session.validated
    /\ ~IsUndefined(store.user)

\* the fields of the snapshot that differ between s and t
Changed(s, t) == {f \in DOMAIN s : s[f] # t[f]}

\* C38: every kind changes only its own fields: fetchStats only appInfo,
\* fetchOnline only onlineUsers, ban and upgrade only user, and a
\* changeUsername or a metadata event observed while no user is held
\* changes nothing.
C38_OnlyOwnFields ==
    [][Observing =>
        /\ Observed.kind = "fetchStats"
              => Changed(store, store') \subseteq {"appInfo"}
        /\ Observed.kind = "fetchOnline"
              => Changed(store, store') \subseteq {"onlineUsers"}
        /\ Observed.kind \in {"ban", "upgrade"}
              => Changed(store, store') \subseteq {"user"}
        /\ (Observed.kind \in {"changeUsername", "metadata"}
               /\ IsUndefined(store.user))
              => store' = store]_vars

\* a changeUsername event was observed by an initialized store that holds
\* no user, and no user was created
C38_Witness ==
    /\ Len(log) >= 2
    /\ log[1].kind = "init"
    /\ Last.kind = "changeUsername"
    /\ \A i \in DOMAIN log : log[i].kind # "login"
    /\ IsUndefined(store.user)
    /\ store.initialized

\* C31: the wait never busy-spins: a caller that is not admitted is
\* suspended for max(0, refillRate - (now - lastRefillAt)), which is
\* positive after a failed check, and it checks again only once that time
\* has passed.
C31_WaitNeverSpins ==
    [][\A c \in DOMAIN calls :
        /\ (calls'[c].pc = "waiting" /\ calls'[c] # calls[c]) =>
              /\ calls'[c].wakeAt =
                    now + Max(0, rl'.refillRate - (now - rl'.lastRefillAt))
              /\ calls'[c].wakeAt > now
        /\ (calls[c].pc = "waiting" /\ calls'[c] # calls[c]) =>
              now >= calls[c].wakeAt]_vars

\* a call that found the bucket empty in the middle of a refill interval
\* sleeps for the rest of the interval
C31_Witness ==
    \E c \in DOMAIN calls :
        /\ calls[c].pc = "waiting"
        /\ rl.refillRate = 2
        /\ now = 1
        /\ rl.lastRefillAt = 0
        /\ calls[c].wakeAt = 2

\* the places in the log of the events of call c of the kinds K
Places(c, K) == {i \in DOMAIN log : log[i].call = c /\ log[i].kind \in K}

\* every place of S comes before every place of T
Before(S, T) == \A i \in S, j \in T : i < j

\* C32: the publications of one call come in a fixed order: its error
\* event before its response event, before its request event, before the
\* event of the endpoint kind of the wrapping operation; the first three are
\* published before the dispatcher call returns, the last one after.
C32_FixedPublicationOrder ==
    [][\A c \in DOMAIN calls :
        /\ Before(Places(c, {"error"}), Places(c, {"response"}))'
        /\ Before(Places(c, {"response"}), Places(c, {"request"}))'
        /\ Before(Places(c, {"error"}), Places(c, {"request"}))'
        /\ Before(Places(c, CrossKinds), Places(c, Endpoints))'
        /\ \A i \in DOMAIN Appended :
              Appended[i].call = c =>
                  IF Appended[i].kind \in CrossKinds
                  THEN calls[c].pc \in {"idle", "waiting", "inflight"}
                  ELSE calls[c].pc = "returned"]_vars

\* C39: a public operation whose transport call failed at transport level
\* publishes no event of its endpoint kind.
C39_NoEndpointEventOnTransportFailure ==
    \A c \in DOMAIN calls :
        (calls[c].wrapped /\ Failed(c)) => Count(c, calls[c].op) = 0

\* C35: the seller key goes to the transport only: no payload of a
\* response, request, error or endpoint event and no resolved value has a
\* sellerkey property, while the parameters of every transport call have it.
C35_CredentialOnlyToTransport ==
    /\ \A i \in DOMAIN log :
          /\ "sellerkey" \notin DOMAIN log[i].data
          /\ log[i].kind = "request" =>
                /\ "sellerkey" \notin DOMAIN log[i].data.request.params
                /\ "sellerkey" \notin DOMAIN log[i].data.response
    /\ \A c \in DOMAIN calls :
          /\ "sellerkey" \notin DOMAIN calls[c].mr
          /\ "sellerkey" \notin DOMAIN calls[c].value
          /\ calls[c].sent >= 1 =>
                /\ calls[c].query.sellerkey = SellerKey
                /\ \A f \in DOMAIN Params(calls[c].op) :
                      calls[c].query[f] = Params(calls[c].op)[f]

\* a call whose transport call carried the key has published its response
\* and request events and resolved
C35_Witness ==
    \E c \in DOMAIN calls :
        /\ calls[c].pc = "done"
        /\ Answered(c)
        /\ calls[c].query.sellerkey = SellerKey
        /\ Len(AnswerResponses(c)) = 1
        /\ Count(c, "request") = 1
        /\ ~IsUndefined(calls[c].value)

\* ------------------------------------------------ the clock during a call
\* a dispatcher call during whose synchronous part the clock advances by d:
\* startTime is read first, the notice of a refused attempt reads the clock
\* again after the admission check
ClockedRequest(c, op, d) ==
    /\ UNCHANGED store
    /\ calls[c].pc = "idle"
    /\ now + d <= MaxTime
    /\ now' = now + d
    /\ LET cr == [IdleCall EXCEPT !.op = op]
           h  == HasHitRateLimit(rl, now)
       IN  IF h.hit
           THEN LET st == EmitAll([ls |-> listeners, log |-> log,
                                   threw |-> FALSE],
                                  RateLimitEvents(c, cr, now, now + d))
                    w  == WaitIteration(h.bucket, now + d)
                IN  /\ rl' = w.bucket
                    /\ listeners' = st.ls
                    /\ log' = st.log
                    /\ calls' = [calls EXCEPT ![c] =
                           [cr EXCEPT !.pc = "waiting",
                                      !.wakeAt = now + d + w.sleep]]
           ELSE /\ rl' = h.bucket
                /\ calls' = [calls EXCEPT ![c] =
                       [cr EXCEPT !.pc = "inflight", !.startTime = now,
                                  !.sent = @ + 1,
                                  !.query = TransportParams(Params(op))]]
                /\ UNCHANGED <<listeners, log>>

InitClock == Init

NextClock ==
    \/ Tick
    \/ OtherTraffic
    \/ \E c \in DOMAIN calls, op \in Ops, d \in 0 .. MaxDelay :
          ClockedRequest(c, op, d)
    \/ \E c \in DOMAIN calls : Wake(c)
    \/ \E c \in DOMAIN calls, body \in Bodies : TransportAnswer(c, 200, body)

SpecClock == InitClock /\ [][NextClock]_vars

\* C34: the elapsed time of every event payload and of every resolved
\* result is non-negative, the one of the rate-limit notice included.
C34_ElapsedTimeNonNegative ==
    /\ \A i \in DOMAIN log :
          /\ log[i].kind = "response" => log[i].data.time >= 0
          /\ log[i].kind = "request" => log[i].data.response.time >= 0
    /\ \A c \in DOMAIN calls :
          ~IsUndefined(calls[c].value) => calls[c].value.time >= 0

\* --------------------------------------------- handlers that start calls
\* A callback may call the client again. A handler with act "call" starts a
\* dispatcher call: _makeRequest runs inside the emit up to its first await.
\* A run of emits is st = [ls, log, threw, rl, calls]; an event is logged
\* when its emit starts, before its handlers are invoked.
RECURSIVE StartCall(_)
RECURSIVE DeliverNested(_, _)
RECURSIVE EmitNested(_, _)

\* _makeRequest up to its first await, started by a handler for the first
\* call that was not made yet: a refused attempt publishes its notice and
\* waits, an admitted one starts its transport call
StartCall(st) ==
    LET idle == {c \in DOMAIN st.calls : st.calls[c].pc = "idle"}
    IN  IF idle = {} THEN st
        ELSE LET c  == CHOOSE x \in idle : \A y \in idle : x <= y
                 cr == [IdleCall EXCEPT !.op = "verify"]
                 h  == HasHitRateLimit(st.rl, now)
                 w  == WaitIteration(h.bucket, now)
             IN  IF h.hit
                 THEN EmitNested(
                        [st EXCEPT !.rl = w.bucket,
                                   !.calls[c] =
                                      [cr EXCEPT !.pc = "waiting",
                                                 !.wakeAt = now + w.sleep]],
                        RateLimitEvents(c, cr, now, now)[1])
                 ELSE [st EXCEPT !.rl = h.bucket,
                                 !.calls[c] =
                                    [cr EXCEPT !.pc = "inflight",
                                               !.startTime = now,
                                               !.sent = @ + 1,
                                               !.query = TransportParams(
                                                            Params(cr.op))]]

\* the loop of emit over the handlers hs
DeliverNested(st, hs) ==
    IF hs = << >> THEN st
    ELSE DeliverNested(IF Head(hs).act = "call" THEN StartCall(st) ELSE st,
                       Tail(hs))

EmitNested(st, ev) ==
    IF st.threw THEN st
    ELSE IF EmitThrows(st.ls, ev.kind)
    THEN [st EXCEPT !.log = Append(@, Logged(ev, << >>, << >>)),
                    !.threw = TRUE]
    ELSE LET snap == st.ls[ev.kind]
         IN  DeliverNested([st EXCEPT !.log = Append(@, Logged(ev, snap, snap))],
                           snap)

RECURSIVE EmitAllNested(_, _)
EmitAllNested(st, evs) ==
    IF evs = << >> THEN st
    ELSE EmitAllNested(EmitNested(st, Head(evs)), Tail(evs))

\* Api.on with a callback that returns or that starts a call
NestOn(kind, act) == Subscribe(kind, FALSE, act, MaxListeners)

\* a dispatcher that yields between its emits: each answer step publishes
\* the next event only
NestedAnswer_Yields(c, body) ==
    /\ calls[c].pc = "inflight"
    /\ UNCHANGED <<now, store>>
    /\ LET cr == calls[c]
           responseTime == now - cr.startTime
           evs == AnswerEvents(c, cr, body, responseTime)
           st == EmitNested([ls |-> listeners, log |-> log, threw |-> FALSE,
                             rl |-> rl, calls |-> calls], Head(evs))
       IN  /\ listeners' = st.ls
           /\ log' = st.log
           /\ rl' = st.rl
           /\ calls' = IF st.threw \/ Len(evs) = 1
                       THEN [st.calls EXCEPT ![c] =
                               Return(c, cr,
                                      MakeRequestResult(st.threw, body,
                                                        responseTime),
                                      "answered", body)]
                       ELSE [st.calls EXCEPT
                               ![c].skipError = TRUE,
                               ![c].skipResponse =
                                   @ \/ Head(evs).kind = "response"]

\* the transport answers call c with a body: the emits of _makeRequest run
\* one after the other, and the calls their handlers start run inside them
NestedAnswer(c, body) ==
    /\ calls[c].pc = "inflight"
    /\ UNCHANGED <<now, store>>
    /\ LET cr == calls[c]
           responseTime == now - cr.startTime
           st == EmitAllNested([ls |-> listeners, log |-> log,
                                threw |-> FALSE, rl |-> rl, calls |-> calls],
                               AnswerEvents(c, cr, body, responseTime))
       IN  /\ listeners' = st.ls
           /\ log' = st.log
           /\ rl' = st.rl
           /\ calls' = [st.calls EXCEPT ![c] =
                 Return(c, cr,
                        MakeRequestResult(st.threw, body, responseTime),
                        "answered", body)]

InitNest ==
    /\ now = 0
    /\ store = InitialStore
    /\ \E m \in 1 .. MaxCapacity, r \in 1 .. MaxRefillRate :
          rl = [tokens |-> m, lastRefillAt |-> 0,
                maxTokens |-> m, refillRate |-> r]
    /\ listeners = [k \in AllKinds |-> << >>]
    /\ calls = [c \in 1 .. NestCalls |-> IdleCall]
    /\ log = << >>

NextNest ==
    \/ Tick
    \/ OtherTraffic
    \/ \E k \in {"error", "request"}, a \in {"return", "call"} : NestOn(k, a)
    \/ \E c \in DOMAIN calls, op \in Ops : RawRequest(c, op, FALSE, FALSE)
    \/ \E c \in DOMAIN calls : Wake(c)
    \/ \E c \in DOMAIN calls, body \in Bodies : NestedAnswer(c, body)

SpecNest == InitNest /\ [][NextNest]_vars

\* the event at place i of the log is one of the answer of call c: its
\* error event, its response event or its request event
OfAnswer(i, c) ==
    /\ log[i].call = c
    /\ \/ log[i].kind \in {"error", "request"}
       \/ log[i].kind = "response" /\ log[i].data.type # "ratelimit"

\* C33: the error, response and request events of one call are published
\* contiguously: no event of another call lies between two of them.
C33_ContiguousPublication ==
    \A c \in DOMAIN calls : \A i, j, k \in DOMAIN log :
        (i < j /\ j < k /\ OfAnswer(i, c) /\ OfAnswer(k, c))
            => log[j].call = c

\* C33, amended: between two events of the answer of one call, the only
\* events of another call are the rate-limit notices of calls that were
\* started, by a handler, after the first of the two was published.
C33_ContiguousButForNestedNotices ==
    \A c \in DOMAIN calls : \A i, j, k \in DOMAIN log :
        (i < j /\ j < k /\ OfAnswer(i, c) /\ OfAnswer(k, c)
           /\ log[j].call # c)
            => /\ log[j].kind = "response"
               /\ log[j].data.type = "ratelimit"
               /\ \A n \in 1 .. i : log[n].call # log[j].call

\* the handler of the error event of call 1 started call 2, which found the
\* bucket empty: its notice lies between the error event and the request
\* event of call 1, and call 2 waits
C33_Witness ==
    \E i, j, k \in DOMAIN log :
        /\ i < j /\ j < k
        /\ log[i].call = 1 /\ log[i].kind = "error"
        /\ log[j].call = 2 /\ log[j].data.type = "ratelimit"
        /\ log[k].call = 1 /\ log[k].kind = "request"
        /\ calls[2].pc = "waiting"
        /\ calls[1].pc = "done"

\* ------------------------------------------------- the limiter on its own
\* the admission checks of the requests of one client, at any times: each
\* check is recorded with its time, its verdict, the tokens it credited, the
\* refills that were owed and the token it took
Check ==
    /\ Len(log) < MaxChecks
    /\ LET h == HasHitRateLimit(rl, now)
           r == Refill(rl, now)
       IN  /\ rl' = h.bucket
           /\ log' = Append(log,
                 Event("check", 0,
                       [at |-> now, admitted |-> ~h.hit,
                        credited |-> r.tokens - rl.tokens,
                        owed |-> (now - rl.lastRefillAt) \div rl.refillRate,
                        taken |-> r.tokens - h.bucket.tokens]))
    /\ UNCHANGED <<now, listeners, calls, store>>

NextLimiter == Tick \/ Check

InitLimiter == Init

SpecLimiter == InitLimiter /\ [][NextLimiter]_vars

\* the tokens the bucket holds at the time of a check once the owed refills
\* are applied: min(capacity, tokens + floor(elapsed / refillRate))
AfterRefill ==
    Min(rl.maxTokens,
        rl.tokens + ((now - rl.lastRefillAt) \div rl.refillRate))

RECURSIVE SumCredited(_)
SumCredited(lg) ==
    IF lg = << >> THEN 0 ELSE Head(lg).data.credited + SumCredited(Tail(lg))

\* no refill was cut by the capacity: the bucket was never full when a
\* refill was owed
NeverFull == \A i \in DOMAIN log : log[i].data.credited = log[i].data.owed

\* C30: while the bucket is never full, the tokens added up to the time T of
\* the last check are floor(T / refillRate), whatever the number and the
\* times of the checks.
C30_NoRefillDrift ==
    (log # << >> /\ NeverFull) =>
        SumCredited(log) = Last.data.at \div rl.refillRate

\* checks at times that are no multiples of the refill interval, and a token
\* credited by a later check
C30_Witness ==
    /\ Len(log) = 3
    /\ NeverFull
    /\ rl.refillRate = 2
    /\ log[2].data.at = 1
    /\ log[3].data.at = 2
    /\ log[3].data.credited = 1

====
